---- MODULE Spec2Model ----
(***************************************************************************)
(* Model of src/OpenQQ/app.py: the /api/ask handler (cache lookup, tech    *)
(* search with LIKE, generative fallback, cache insert) running as         *)
(* concurrent Flask requests over one SQLite file.                         *)
(*                                                                         *)
(* Text is a sequence of one-character strings, so that substring search,  *)
(* LIKE matching, formatting and key comparison are computed, not assumed. *)
(***************************************************************************)
EXTENDS Integers, Sequences, FiniteSets, Bags, TLC

\* ------------------------------------------------------------------ bounds
\* number of /api/ask requests being handled at the same time
MaxWorkers == 2
\* largest similarity score the embedding model gives a label (scores are 0..MaxLogit)
MaxLogit == 2

\* ------------------------------------------------------------- characters
UpperCase == <<"A","B","C","D","E","F","G","H","I","J","K","L","M",
               "N","O","P","Q","R","S","T","U","V","W","X","Y","Z">>

LowerCase == <<"a","b","c","d","e","f","g","h","i","j","k","l","m",
               "n","o","p","q","r","s","t","u","v","w","x","y","z">>

\* SQLite's LIKE folds the 26 ASCII letters and nothing else
FoldMutant(ch) == ch

\* lower-case letter of each upper-case letter
FoldTable == [ch \in { UpperCase[i] : i \in 1..26 } |->
                LowerCase[CHOOSE i \in 1..26 : UpperCase[i] = ch]]

Fold(ch) == IF ch \in DOMAIN FoldTable THEN FoldTable[ch] ELSE ch

\* ------------------------------------------------------ the seeded tables
\* HEALTHCARE_TECH, the rows init_db() inserts into table tech (name, description)
HEALTHCARE_TECH == <<
    [name |-> <<"O","p","e","n","M","R","S">>,
     description |-> <<"C","u","s","t","o","m","i","z","a","b","l","e"," ","E","M","R"," ","s","y","s","t","e","m",".">>],
    [name |-> <<"O","p","e","n","E","M","R">>,
     description |-> <<"O","p","e","n","-","s","o","u","r","c","e"," ","E","H","R"," ","a","n","d"," ","p","r","a","c","t","i","c","e"," ","m","a","n","a","g","e","m","e","n","t",".">>],
    [name |-> <<"G","N","U"," ","H","e","a","l","t","h">>,
     description |-> <<"H","e","a","l","t","h"," ","a","n","d"," ","h","o","s","p","i","t","a","l"," ","i","n","f","o","r","m","a","t","i","o","n"," ","s","y","s","t","e","m",".">>] >>

\* ----------------------------------------------------------------- inputs
WhatIsOpenMRS == <<"W","h","a","t"," ","i","s"," ","O","p","e","n","M","R","S","?">>
OpenMRS == <<"O","p","e","n","M","R","S">>
LowerOpenMRS == <<"o","p","e","n","M","R","S">>
UnderscoreOpenMRS == <<"O","p","e","n","_","R","S">>
Percent == <<"%">>
PercentInside == <<"M","%","S">>
EMR == <<"E","M","R">>
EMRSpace == <<"E","M","R"," ">>
NovelPrompt == <<"q","g">>

\* request.json.get('prompt'): None when the field is missing
NoPrompt == [present |-> FALSE, text |-> <<>>]

Given(t) == [present |-> TRUE, text |-> t]

\* the prompts the clients of one behaviour send: one prompt, or two prompts
\* one character apart (letter case, trailing blank)
Workloads ==
    { {NoPrompt, Given(<<>>)},
      {Given(WhatIsOpenMRS)},
      {Given(UnderscoreOpenMRS)},
      {Given(Percent)},
      {Given(PercentInside)},
      {Given(NovelPrompt)},
      {Given(OpenMRS), Given(LowerOpenMRS)},
      {Given(EMR), Given(EMRSpace)} }

\* what the completion service may answer, and how a call may fail (str(e))
GenAnswers == { <<"4","2">>, <<"4","3">> }

GenFailures == { <<"t","i","m","e","o","u","t">> }

ErrorPrefix == <<"[","E","r","r","o","r"," ","c","a","l","l","i","n","g"," ","m","o","d","e","l",":"," ">>

\* request.files.get('image'): None when no file was uploaded
NoImage == [present |-> FALSE, decodable |-> FALSE, logits |-> <<>>]

\* bytes that are not an image
NotAnImage == [present |-> TRUE, decodable |-> FALSE, logits |-> <<>>]

\* an image, told apart by the score the embedding model gives each label
Pictures ==
    { [present |-> TRUE, decodable |-> TRUE, logits |-> <<a, b, c, d>>] :
        a \in 0..MaxLogit, b \in 0..MaxLogit, c \in 0..MaxLogit,
        d \in 0..MaxLogit }

\* the uploads of one behaviour: one payload sent any number of times
Uploads == { {file} : file \in {NoImage, NotAnImage} \cup Pictures }

\* ------------------------------------------------------- pure computations
\* x LIKE pat in SQLite: % any run, _ any one character, ASCII case folded
RECURSIVE Like(_, _)
Like(pat, s) ==
    IF pat = <<>> THEN s = <<>>
    ELSE IF Head(pat) = "%"
         THEN Like(Tail(pat), s) \/ (s # <<>> /\ Like(pat, Tail(s)))
         ELSE /\ s # <<>>
              /\ Head(pat) = "_" \/ Fold(Head(pat)) = Fold(Head(s))
              /\ Like(Tail(pat), Tail(s))

\* f"%{prompt}%"
LikePattern(prompt) == <<"%">> \o prompt \o <<"%">>

TechMatchesReversed(row, prompt) ==
    \/ Like(LikePattern(row.name), prompt)
    \/ Like(LikePattern(row.description), prompt)

TechMatchesNameOnly(row, prompt) == Like(LikePattern(prompt), row.name)

\* WHERE name LIKE ? OR description LIKE ?
TechMatches(row, prompt) ==
    \/ Like(LikePattern(prompt), row.name)
    \/ Like(LikePattern(prompt), row.description)

\* SELECT name, description FROM tech WHERE ... : the matching rows in table order
RECURSIVE SelectTech(_, _)
SelectTech(table, prompt) ==
    IF table = <<>> THEN <<>>
    ELSE (IF TechMatches(Head(table), prompt) THEN <<Head(table)>> ELSE <<>>)
         \o SelectTech(Tail(table), prompt)

\* f"{r[0]}: {r[1]}"
FormatRow(r) == r.name \o <<":", " ">> \o r.description

JoinFirstOnly(results) ==
    IF results = <<>> THEN <<>> ELSE FormatRow(results[1])

\* '\n'.join([...])
RECURSIVE JoinLines(_)
JoinLines(results) ==
    IF results = <<>> THEN <<>>
    ELSE IF Len(results) = 1 THEN FormatRow(results[1])
    ELSE FormatRow(results[1]) \o <<"\n">> \o JoinLines(Tail(results))

\* f"[Error calling model: {e}]"
ErrorPlaceholder(e) == ErrorPrefix \o e \o <<"]">>

SelectCacheMutant(table, prompt) ==
    { row \in table : [i \in 1..Len(row.prompt) |-> Fold(row.prompt[i])]
                      = [i \in 1..Len(prompt) |-> Fold(prompt[i])] }

\* SELECT response FROM cache WHERE prompt = ? : TEXT compared byte for byte
SelectCache(table, prompt) == { row \in table : row.prompt = prompt }

InsertCacheLost(table, prompt, response) ==
    IF \E row \in table : row.prompt = prompt
    THEN [ok |-> FALSE, table |-> table]
    ELSE [ok |-> TRUE, table |-> table]

InsertCacheUpsert(table, prompt, response) ==
    [ok |-> TRUE,
     table |-> { row \in table : row.prompt # prompt }
               \cup {[prompt |-> prompt, response |-> response]}]

InsertCacheNoKey(table, prompt, response) ==
    [ok |-> TRUE,
     table |-> table \cup {[prompt |-> prompt, response |-> response]}]

\* INSERT INTO cache (prompt, response) VALUES (?, ?) with prompt TEXT PRIMARY KEY:
\* a second row for a key raises sqlite3.IntegrityError and changes nothing
InsertCache(table, prompt, response) ==
    IF \E row \in table : row.prompt = prompt
    THEN [ok |-> FALSE, table |-> table]
    ELSE [ok |-> TRUE,
          table |-> table \cup {[prompt |-> prompt, response |-> response]}]

\* tags, the label texts in the order given to the processor (lines 83, 87)
tags == <<"robot", "sensor", "healthcare", "technology">>

\* resolution of a probability: softmax results are multiples of 1/ProbScale
ProbScale == 1024

RECURSIVE Pow2(_)
Pow2(n) == IF n = 0 THEN 1 ELSE 2 * Pow2(n - 1)

RECURSIVE SumPow2(_)
SumPow2(xs) == IF xs = <<>> THEN 0 ELSE Pow2(Head(xs)) + SumPow2(Tail(xs))

\* logits_per_image.softmax(dim=1): positive, order-preserving, normalised,
\* rounded to the resolution
Softmax(logits) ==
    [i \in 1..Len(logits) |-> (Pow2(logits[i]) * ProbScale) \div SumPow2(logits)]

ArgMaxLast(probs) ==
    CHOOSE i \in 1..Len(probs) :
        /\ \A j \in 1..Len(probs) : probs[j] <= probs[i]
        /\ \A j \in (i + 1)..Len(probs) : probs[j] < probs[i]

\* probs.argmax().item(): index of the first maximal value
ArgMax(probs) ==
    CHOOSE i \in 1..Len(probs) :
        /\ \A j \in 1..Len(probs) : probs[j] <= probs[i]
        /\ \A j \in 1..(i - 1) : probs[j] < probs[i]

ImageOpenLenient(file) ==
    [ok |-> TRUE,
     logits |-> IF file.decodable THEN file.logits ELSE <<0, 0, 0, 0>>]

\* Image.open(file.stream).convert("RGB"): raises on bytes that are no image
ImageOpen(file) ==
    IF file.decodable THEN [ok |-> TRUE, logits |-> file.logits]
    ELSE [ok |-> FALSE, logits |-> <<>>]

\* ------------------------------------------------------------------ state
VARIABLES
    workload,   \* the prompts clients send in this behaviour (fixed by Init)
    cache,      \* committed rows of table cache: records [prompt, response]
    inflight,   \* bag of the requests inside ask(): their locals and position
    answered,   \* history: the (prompt, response) pairs returned with HTTP 200
    uploads,    \* the image payloads clients send in this behaviour (fixed by Init)
    tagging     \* bag of the requests inside autotag(): their locals and position

vars == <<workload, cache, inflight, answered, uploads, tagging>>

tagVars == <<uploads, tagging>>

askVars == <<workload, cache, inflight, answered>>

\* the locals of ask() on entry; seen is history: what had been answered when
\* the request arrived
NewRequest(payload) ==
    [pc |-> "lookup", prompt |-> payload, conn |-> "open", tx |-> FALSE,
     hit |-> FALSE, searched |-> FALSE, results |-> <<>>, response |-> <<>>,
     genCalled |-> FALSE, genFailed |-> FALSE, wrote |-> FALSE,
     raised |-> "none", failedOp |-> "none", status |-> 0,
     seen |-> answered]

Active == BagToSet(inflight)

\* one request moves from position old to position new
Move(old, new) == inflight' = (inflight (-) SetToBag({old})) (+) SetToBag({new})

\* SQLite lets one connection at a time hold the file's write lock
WriteLocked == \E req \in Active : req.tx

\* the state after init_db(): empty cache table, tech seeded, no request yet
Init ==
    /\ \/ workload \in Workloads /\ uploads = {}
       \/ workload = {} /\ uploads \in Uploads
       \/ workload = {NoPrompt} /\ uploads = {NoImage}
    /\ cache = {}
    /\ inflight = EmptyBag
    /\ answered = {}
    /\ tagging = EmptyBag

BeginUnchecked(payload) ==
    /\ payload \in workload
    /\ BagCardinality(inflight) < MaxWorkers
    /\ inflight' = inflight (+) SetToBag({NewRequest(payload)})
    /\ UNCHANGED <<workload, cache, answered>>
    /\ UNCHANGED tagVars

BeginNoneOnly(payload) ==
    /\ payload \in workload
    /\ BagCardinality(inflight) < MaxWorkers
    /\ LET req == NewRequest(payload) IN
       IF ~payload.present
       THEN inflight' = inflight (+) SetToBag(
                {[req EXCEPT !.pc = "done", !.conn = "none", !.status = 400]})
       ELSE inflight' = inflight (+) SetToBag({req})
    /\ UNCHANGED <<workload, cache, answered>>
    /\ UNCHANGED tagVars

\* lines 43-47: read the prompt, reject a falsy one with 400, else connect
Begin(payload) ==
    /\ payload \in workload
    /\ BagCardinality(inflight) < MaxWorkers
    /\ LET req == NewRequest(payload) IN
       IF ~payload.present \/ payload.text = <<>>
       THEN inflight' = inflight (+) SetToBag(
                {[req EXCEPT !.pc = "done", !.conn = "none", !.status = 400]})
       ELSE inflight' = inflight (+) SetToBag({req})
    /\ UNCHANGED <<workload, cache, answered>>
    /\ UNCHANGED tagVars

CacheLookupFallsThrough(req) ==
    /\ req.pc = "lookup"
    /\ LET rows == SelectCache(cache, req.prompt.text) IN
       IF rows # {}
       THEN \E row \in rows :
              /\ Move(req, [req EXCEPT !.pc = "search", !.hit = TRUE,
                                       !.response = row.response])
              /\ UNCHANGED answered
       ELSE /\ Move(req, [req EXCEPT !.pc = "search"])
            /\ UNCHANGED answered
    /\ UNCHANGED <<workload, cache>>
    /\ UNCHANGED tagVars

\* lines 49-52: SELECT from cache; a row ends the request with its response,
\* leaving the connection open
CacheLookup(req) ==
    /\ req.pc = "lookup"
    /\ LET rows == SelectCache(cache, req.prompt.text) IN
       IF rows # {}
       THEN \E row \in rows :
              /\ Move(req, [req EXCEPT !.pc = "done", !.hit = TRUE,
                                       !.response = row.response,
                                       !.status = 200])
              /\ answered' = answered \cup
                    {[prompt |-> req.prompt.text, response |-> row.response]}
       ELSE /\ Move(req, [req EXCEPT !.pc = "search"])
            /\ UNCHANGED answered
    /\ UNCHANGED <<workload, cache>>
    /\ UNCHANGED tagVars

\* lines 54-56: SELECT from tech; matching rows are formatted into the response
KnowledgeSearch(req) ==
    /\ req.pc = "search"
    /\ LET results == SelectTech(HEALTHCARE_TECH, req.prompt.text) IN
       IF results # <<>>
       THEN Move(req, [req EXCEPT !.pc = "insert", !.searched = TRUE,
                                  !.results = results,
                                  !.response = JoinLines(results)])
       ELSE Move(req, [req EXCEPT !.pc = "generate", !.searched = TRUE])
    /\ UNCHANGED <<workload, cache, answered>>
    /\ UNCHANGED tagVars

\* lines 58-66: one ChatCompletion call; any exception becomes the placeholder
Generate(req) ==
    /\ req.pc = "generate"
    /\ \/ \E a \in GenAnswers :
            Move(req, [req EXCEPT !.pc = "insert", !.genCalled = TRUE,
                                  !.response = a])
       \/ \E e \in GenFailures :
            Move(req, [req EXCEPT !.pc = "insert", !.genCalled = TRUE,
                                  !.genFailed = TRUE,
                                  !.response = ErrorPlaceholder(e)])
    /\ UNCHANGED <<workload, cache, answered>>
    /\ UNCHANGED tagVars

\* line 68: INSERT opens a write transaction (taking the write lock) and checks
\* the primary key; IntegrityError is not caught, so the request ends in 500
\* with its connection and transaction left open
Insert(req) ==
    /\ req.pc = "insert"
    /\ ~WriteLocked
    /\ IF InsertCache(cache, req.prompt.text, req.response).ok
       THEN Move(req, [req EXCEPT !.pc = "commit", !.tx = TRUE, !.wrote = TRUE])
       ELSE Move(req, [req EXCEPT !.pc = "done", !.tx = TRUE, !.wrote = TRUE,
                                  !.raised = "IntegrityError",
                                  !.failedOp = "insert", !.status = 500])
    /\ UNCHANGED <<workload, cache, answered>>
    /\ UNCHANGED tagVars

\* lines 69-72: commit publishes the row, close releases the lock, return 200
Commit(req) ==
    /\ req.pc = "commit"
    /\ cache' = InsertCache(cache, req.prompt.text, req.response).table
    /\ Move(req, [req EXCEPT !.pc = "done", !.tx = FALSE, !.conn = "closed",
                             !.status = 200])
    /\ answered' = answered \cup
          {[prompt |-> req.prompt.text, response |-> req.response]}
    /\ UNCHANGED workload
    /\ UNCHANGED tagVars

\* any of the four statements (lines 49, 54, 68, 69) may raise
\* sqlite3.OperationalError (disk I/O error, database is locked, ...);
\* nothing in ask() catches it, so Flask answers 500
StorageError(req) ==
    /\ req.pc \in {"lookup", "search", "insert", "commit"}
    /\ Move(req, [req EXCEPT !.pc = "done", !.raised = "OperationalError",
                             !.failedOp = req.pc, !.status = 500])
    /\ UNCHANGED <<workload, cache, answered>>
    /\ UNCHANGED tagVars

\* the request is over and its frame is freed: a connection ask() did not
\* close (line 52, and every raise) is closed by the interpreter, which rolls
\* back its transaction and drops its lock
Release(req) ==
    /\ req.pc = "done"
    /\ inflight' = inflight (-) SetToBag({req})
    /\ UNCHANGED <<workload, cache, answered>>
    /\ UNCHANGED tagVars

\* the locals of autotag() on entry
NewTagRequest(file) ==
    [pc |-> "decode", file |-> file, decoded |-> FALSE, classified |-> FALSE,
     label |-> "", raised |-> "none", status |-> 0]

Tagging == BagToSet(tagging)

MoveTag(old, new) == tagging' = (tagging (-) SetToBag({old})) (+) SetToBag({new})

\* lines 76-78: read the upload, reject a missing one with 400
BeginTag(file) ==
    /\ file \in uploads
    /\ BagCardinality(tagging) < MaxWorkers
    /\ LET req == NewTagRequest(file) IN
       IF ~file.present
       THEN tagging' = tagging (+) SetToBag(
                {[req EXCEPT !.pc = "done", !.status = 400]})
       ELSE tagging' = tagging (+) SetToBag({req})
    /\ UNCHANGED <<askVars, uploads>>

\* line 80: decode the upload; the exception of a failed decode is not
\* caught, so Flask answers 500
Decode(req) ==
    /\ req.pc = "decode"
    /\ IF ImageOpen(req.file).ok
       THEN MoveTag(req, [req EXCEPT !.pc = "classify", !.decoded = TRUE])
       ELSE MoveTag(req, [req EXCEPT !.pc = "done",
                                     !.raised = "UnidentifiedImageError",
                                     !.status = 500])
    /\ UNCHANGED <<askVars, uploads>>

\* lines 81-90: score the image against the four labels, softmax, argmax,
\* return the tag at that index
Classify(req) ==
    /\ req.pc = "classify"
    /\ LET probs == Softmax(ImageOpen(req.file).logits)
           top_tag == tags[ArgMax(probs)]
       IN MoveTag(req, [req EXCEPT !.pc = "done", !.classified = TRUE,
                                   !.label = top_tag, !.status = 200])
    /\ UNCHANGED <<askVars, uploads>>

\* the autotag request is over and its frame is freed
ReleaseTag(req) ==
    /\ req.pc = "done"
    /\ tagging' = tagging (-) SetToBag({req})
    /\ UNCHANGED <<askVars, uploads>>

Next ==
    \/ \E payload \in workload : Begin(payload)
    \/ \E req \in Active : CacheLookup(req)
    \/ \E req \in Active : KnowledgeSearch(req)
    \/ \E req \in Active : Generate(req)
    \/ \E req \in Active : Insert(req)
    \/ \E req \in Active : Commit(req)
    \/ \E req \in Active : StorageError(req)
    \/ \E req \in Active : Release(req)
    \/ \E file \in uploads : BeginTag(file)
    \/ \E req \in Tagging : Decode(req)
    \/ \E req \in Tagging : Classify(req)
    \/ \E req \in Tagging : ReleaseTag(req)

Spec == Init /\ [][Next]_vars

\* ------------------------------------------------- vocabulary of the claims
Statuses == {0, 200, 400, 500}

TypeOK ==
    /\ BagCardinality(inflight) <= MaxWorkers
    /\ \A req \in Active : req.status \in Statuses

Finished == { req \in Active : req.pc = "done" }

Answers == { req \in Finished : req.status = 200 }

\* sub occurs in s, character for character
Contains(s, sub) ==
    \E k \in 0..(Len(s) - Len(sub)) : \A i \in 1..Len(sub) : s[k + i] = sub[i]

TechRows == { HEALTHCARE_TECH[i] : i \in 1..Len(HEALTHCARE_TECH) }

LiteralMatches(q) ==
    { row \in TechRows : Contains(row.name, q) \/ Contains(row.description, q) }

Returned(req) == { req.results[i] : i \in 1..Len(req.results) }

OpenMRSLine == <<"O","p","e","n","M","R","S",":"," ","C","u","s","t","o","m","i","z","a","b","l","e"," ","E","M","R"," ","s","y","s","t","e","m",".">>

Placeholders == { ErrorPrefix \o e \o <<"]">> : e \in GenFailures }

\* ----------------------------------------------------------------- claims

\* C1: once an Ask(P) has returned response R with HTTP 200, every Ask(P) that
\* arrives afterwards and returns with HTTP 200 returns R, whatever the
\* completion service would answer by then.
C1_IdempotentCacheHit ==
    \A req \in Answers : \A a \in req.seen :
        a.prompt = req.prompt.text => req.response = a.response

\* C1 witness: a request for a prompt the completion service had answered
\* before it arrived has itself returned.
C1_Witness ==
    \E req \in Answers : \E a \in req.seen :
        /\ a.prompt = req.prompt.text
        /\ a.response \in GenAnswers \cup Placeholders

\* C2 (as claimed): every request that missed the cache, computed a response
\* and executed the cache write without a storage failure returns its response
\* with HTTP 200: a put on a key that is already present succeeds.
C2_BothWritesSucceed ==
    \A req \in Finished :
        req.wrote /\ req.raised # "OperationalError" =>
            req.status = 200 /\ req.raised = "none"

\* C3 (as claimed): every answered Ask("What is OpenMRS?") contains the line
\* "OpenMRS: Customizable EMR system." and did not call the completion service.
C3_AnsweredFromKnowledgeBase ==
    \A req \in Answers :
        req.prompt.text = WhatIsOpenMRS =>
            Contains(req.response, OpenMRSLine) /\ ~req.genCalled

\* C3 (amended): Ask("What is OpenMRS?") matches no tech row, so on a cache
\* miss the completion service is called and the response is its answer or
\* the error placeholder; an identical Ask that arrives after an answer
\* returns that answer; Ask("OpenMRS") is answered with exactly
\* "OpenMRS: Customizable EMR system." and never calls the completion service.
C3_PromptMustBeContained ==
    /\ \A req \in Active :
          req.prompt.text = WhatIsOpenMRS /\ req.searched => req.results = <<>>
    /\ \A req \in Answers :
          req.prompt.text = WhatIsOpenMRS =>
            /\ req.response \in GenAnswers \cup Placeholders
            /\ ~req.hit => req.genCalled
            /\ \A a \in req.seen :
                  a.prompt = WhatIsOpenMRS => a.response = req.response
    /\ \A req \in Active :
          req.prompt.text = OpenMRS =>
            /\ ~req.genCalled
            /\ req.status = 200 => req.response = OpenMRSLine

\* C3 witness: "What is OpenMRS?" was answered by the completion service, and
\* asked again afterwards and answered from the cache.
C3_Witness ==
    \E req \in Answers :
        /\ req.prompt.text = WhatIsOpenMRS
        /\ req.hit
        /\ \E a \in req.seen : a.prompt = WhatIsOpenMRS

\* C4: a request whose prompt occurs literally in the name or description of
\* some tech row never calls the completion service.
C4_KnowledgePrecedence ==
    \A req \in Active :
        req.genCalled => LiteralMatches(req.prompt.text) = {}

\* C4 witness: a request that missed the cache and whose prompt occurs in a
\* tech row has been answered.
C4_Witness ==
    \E req \in Answers :
        /\ ~req.hit
        /\ req.searched
        /\ LiteralMatches(req.prompt.text) # {}

\* C5 (as claimed): a request whose completion call failed, and that met no
\* storage failure, returns the placeholder with HTTP 200, and the placeholder
\* is the cached value of its prompt.
C5_PlaceholderReturnedAndCached ==
    \A req \in Finished :
        req.genFailed /\ req.raised # "OperationalError" =>
            /\ req.status = 200
            /\ req.response \in Placeholders
            /\ [prompt |-> req.prompt.text, response |-> req.response] \in cache

\* the letters a and b are the same up to ASCII case
CaseTwin ==
    [ch \in { UpperCase[i] : i \in 1..26 } \cup { LowerCase[i] : i \in 1..26 } |->
        IF \E i \in 1..26 : UpperCase[i] = ch
        THEN LowerCase[CHOOSE i \in 1..26 : UpperCase[i] = ch]
        ELSE UpperCase[CHOOSE i \in 1..26 : LowerCase[i] = ch]]

SameLetter(a, b) == a = b \/ (a \in DOMAIN CaseTwin /\ CaseTwin[a] = b)

\* the pieces of q between its % characters
RECURSIVE Pieces(_)
Pieces(q) ==
    IF \A i \in 1..Len(q) : q[i] # "%" THEN <<q>>
    ELSE LET i == CHOOSE j \in 1..Len(q) :
                    q[j] = "%" /\ \A k \in 1..(j - 1) : q[k] # "%"
         IN <<SubSeq(q, 1, i - 1)>> \o Pieces(SubSeq(q, i + 1, Len(q)))

\* piece occurs in s after its first k characters, _ standing for any character
PieceAt(piece, s, k) ==
    /\ k + Len(piece) <= Len(s)
    /\ \A i \in 1..Len(piece) :
          piece[i] = "_" \/ SameLetter(piece[i], s[k + i])

\* the pieces of q occur in s in order, without overlap
LooselyContains(s, q) ==
    LET pieces == Pieces(q)
        n == Len(pieces)
    IN \E at \in [1..n -> 0..Len(s)] :
          /\ \A j \in 1..n : PieceAt(pieces[j], s, at[j])
          /\ \A j \in 1..(n - 1) : at[j] + Len(pieces[j]) <= at[j + 1]

LooseMatches(q) ==
    { row \in TechRows :
        LooselyContains(row.name, q) \/ LooselyContains(row.description, q) }

\* C6 (as claimed): the search returns exactly the tech rows whose name or
\* description contains the prompt as a literal, case-sensitive substring.
C6_LiteralSubstringSearch ==
    \A req \in Active :
        req.searched => Returned(req) = LiteralMatches(req.prompt.text)

\* C6 (amended): the search returns exactly the tech rows whose name or
\* description contains the prompt up to ASCII letter case, where each _ of
\* the prompt stands for any one character and each % for any run of
\* characters.
C6_LikeSearch ==
    \A req \in Active :
        req.searched => Returned(req) = LooseMatches(req.prompt.text)

\* C6 witness: a search has returned a row that does not contain the prompt
\* literally.
C6_Witness ==
    \E req \in Active :
        /\ req.searched
        /\ Returned(req) # {}
        /\ LiteralMatches(req.prompt.text) = {}

\* C7 (as claimed): a request in which a cache statement raised a storage error
\* still returns a response with HTTP 200.
C7_StorageErrorStillAnswers ==
    \A req \in Finished :
        req.raised = "OperationalError" =>
            req.status = 200 /\ req.response # <<>>

\* C8: a row of the cache stays in the cache, and stays the only row of its
\* prompt, in every later state.
C8_EntriesNeverChange ==
    [][\A row \in cache :
          /\ row \in cache'
          /\ \A other \in cache' : other.prompt = row.prompt => other = row]_vars

\* C8 witness: a request computed a different response for a prompt that was
\* already cached and executed its INSERT.
C8_Witness ==
    \E req \in Finished : \E row \in cache :
        /\ req.wrote
        /\ row.prompt = req.prompt.text
        /\ row.response # req.response

\* C9: the cache never holds two rows with the same prompt.
C9_KeyUniqueness ==
    \A row \in cache : \A other \in cache :
        other.prompt = row.prompt => other = row

\* C9 witness: two requests for one prompt are past the cache lookup at the
\* same time, both having missed, and one of them has committed its row.
C9_Witness ==
    \E req \in Active : \E row \in cache :
        /\ req.pc \in {"insert", "commit"}
        /\ req.prompt.text = row.prompt
        /\ \E done \in Answers :
              ~done.hit /\ done.prompt.text = row.prompt

\* a and b differ in exactly one character, replaced or appended
OneCharApart(a, b) ==
    \/ /\ Len(a) = Len(b)
       /\ Cardinality({ i \in 1..Len(a) : a[i] # b[i] }) = 1
    \/ /\ Len(b) = Len(a) + 1
       /\ SubSeq(b, 1, Len(a)) = a
    \/ /\ Len(a) = Len(b) + 1
       /\ SubSeq(a, 1, Len(b)) = b

\* C10: a cache hit returns the row stored under exactly the request's prompt;
\* a row stored under a prompt one character away is never returned.
C10_ExactKey ==
    \A req \in Active :
        req.hit =>
            \E row \in cache :
                row.prompt = req.prompt.text /\ row.response = req.response

\* C10 witness: a request missed the cache although a prompt one character
\* away had been answered, and so cached, before it arrived.
C10_Witness ==
    \E req \in Active :
        /\ req.searched
        /\ \A a \in req.seen : a.prompt # req.prompt.text
        /\ \E a \in req.seen : OneCharApart(a.prompt, req.prompt.text)

\* C11: a request without its required field (Ask without prompt, Autotag
\* without image) ends at once with HTTP 400: no connection, no cache read,
\* no search, no completion call, no cache write, no decode and no
\* classification; such requests leave the cache as it was.
C11_MissingFieldRejected ==
    /\ \A req \in Active :
          ~req.prompt.present =>
            /\ req.pc = "done" /\ req.status = 400
            /\ req.conn = "none" /\ ~req.tx
            /\ ~req.hit /\ ~req.searched /\ ~req.genCalled /\ ~req.wrote
            /\ req.response = <<>>
    /\ \A req \in Tagging :
          ~req.file.present =>
            /\ req.pc = "done" /\ req.status = 400
            /\ ~req.decoded /\ ~req.classified /\ req.label = ""
    /\ (\A payload \in workload : ~payload.present) => cache = {}

\* C11 witness: an Ask without prompt and an Autotag without image have both
\* been rejected.
C11_Witness ==
    /\ \E req \in Finished : ~req.prompt.present /\ req.status = 400
    /\ \E req \in Tagging : ~req.file.present /\ req.status = 400

TagSet == { tags[i] : i \in 1..Len(tags) }

\* position i holds the largest score, and no earlier position does
FirstBest(scores, i) ==
    /\ \A j \in 1..Len(scores) : scores[j] <= scores[i]
    /\ \A j \in 1..(i - 1) : scores[j] < scores[i]

\* C12: an Autotag of a decodable image ends with HTTP 200 and one label of
\* (robot, sensor, healthcare, technology): the one at the first position of
\* the largest score.
C12_FixedLabelClosure ==
    \A req \in Tagging :
        req.file.present /\ req.file.decodable /\ req.pc = "done" =>
            /\ req.status = 200
            /\ req.label \in TagSet
            /\ \E i \in 1..Len(tags) :
                  req.label = tags[i] /\ FirstBest(req.file.logits, i)

\* C12 witness: a label was returned for an image whose largest score is
\* shared by two labels, neither of them the first of the list.
C12_Witness ==
    \E req \in Tagging :
        /\ req.status = 200
        /\ \E i \in 2..Len(tags) : \E j \in (i + 1)..Len(tags) :
              /\ FirstBest(req.file.logits, i)
              /\ req.file.logits[j] = req.file.logits[i]

\* C13: an Autotag whose payload is present but is not an image ends with the
\* decode exception (HTTP 500) and never carries a label.
C13_DecodeFailureSurfaced ==
    \A req \in Tagging :
        req.file.present /\ ~req.file.decodable =>
            /\ req.label = "" /\ ~req.classified
            /\ req.pc = "done" =>
                  req.status = 500 /\ req.raised = "UnidentifiedImageError"

\* C13 witness: an Autotag of bytes that are no image has ended.
C13_Witness ==
    \E req \in Tagging :
        req.file.present /\ ~req.file.decodable /\ req.pc = "done"

\* C14: a request whose cache lookup hit is finished at that step with the
\* cached response: it has run no search, made no completion call and no
\* INSERT, holds no transaction, and the step of the hit leaves the cache as
\* it was.
C14_HitGoesStraightToDone ==
    [][\A req \in BagToSet(inflight') :
          req.hit =>
            /\ req.pc = "done" /\ req.status = 200
            /\ ~req.searched /\ ~req.genCalled /\ ~req.wrote /\ ~req.tx
            /\ req.results = <<>>
            /\ CopiesIn(req, inflight') > CopiesIn(req, inflight) =>
                  /\ cache' = cache
                  /\ [prompt |-> req.prompt.text, response |-> req.response]
                        \in cache]_vars

\* C14 witness: an answer of the completion service was served again from
\* the cache.
C14_Witness ==
    \E req \in Finished : req.hit /\ req.response \in GenAnswers

\* C15: a request that missed the cache and returned response R with HTTP
\* 200 executed the INSERT, and the cache holds (prompt, R), whether R came
\* from the tech table or from the completion service.
C15_MissPersistsBeforeDone ==
    \A req \in Answers :
        ~req.hit =>
            /\ req.wrote
            /\ [prompt |-> req.prompt.text, response |-> req.response] \in cache

\* C15 witness: an answer built from the tech table has been returned and
\* is in the cache.
C15_Witness ==
    \E req \in Answers :
        /\ ~req.hit
        /\ req.results # <<>>
        /\ [prompt |-> req.prompt.text, response |-> req.response] \in cache

\* C16 (as claimed): a request that has ended holds no open connection, on
\* whichever path it ended.
C16_ConnectionsReleased ==
    \A req \in Finished : req.conn # "open"

LineLen(r) == Len(r.name) + 2 + Len(r.description)

\* number of characters of the response before the line of results[i]
RECURSIVE LineStart(_, _)
LineStart(results, i) ==
    IF i = 1 THEN 0
    ELSE LineStart(results, i - 1) + LineLen(results[i - 1]) + 1

TechIndex(r) == CHOOSE k \in 1..Len(HEALTHCARE_TECH) : HEALTHCARE_TECH[k] = r

\* C17: when the search returned rows, the response consists of one line per
\* returned row, in the order of the rows (which is the order of the table):
\* the name, a colon and a blank, the description; the lines are separated
\* by a line break and nothing else is in the response.
C17_ResponseListsEveryMatch ==
    \A req \in Active :
        req.results # <<>> /\ ~req.hit =>
            LET results == req.results
                n == Len(results)
                resp == req.response
            IN /\ Len(resp) = LineStart(results, n) + LineLen(results[n])
               /\ \A i \in 1..n :
                    LET at == LineStart(results, i)
                        r == results[i]
                        k == Len(r.name)
                    IN /\ SubSeq(resp, at + 1, at + k) = r.name
                       /\ resp[at + k + 1] = ":"
                       /\ resp[at + k + 2] = " "
                       /\ SubSeq(resp, at + k + 3, at + LineLen(r))
                            = r.description
                       /\ i < n => resp[at + LineLen(r) + 1] = "\n"
               /\ \A i \in 1..(n - 1) :
                    TechIndex(results[i]) < TechIndex(results[i + 1])

\* C17 witness: a response was built from all three rows of the table.
C17_Witness ==
    \E req \in Active :
        ~req.hit /\ Len(req.results) = 3 /\ req.response # <<>>

\* C18: no two HTTP 200 answers for one prompt differ; the request whose
\* INSERT finds the key already present ends in 500 and returns nothing.
C18_OneAnswerPerPrompt ==
    /\ \A a \in answered : \A b \in answered :
          a.prompt = b.prompt => a.response = b.response
    /\ \A req \in Finished :
          req.raised = "IntegrityError" => req.status = 500

\* C18 witness: a request lost the race for its prompt with a response other
\* than the one that was returned to another caller.
C18_Witness ==
    \E req \in Finished : \E a \in answered :
        /\ req.raised = "IntegrityError"
        /\ a.prompt = req.prompt.text
        /\ a.response # req.response

\* C19: an Ask whose prompt is the empty string ends like one without
\* prompt, with HTTP 400 and nothing run, and no row of the cache has the
\* empty string as its prompt.
C19_EmptyPromptRejected ==
    /\ \A req \in Active :
          req.prompt.text = <<>> =>
            /\ req.pc = "done" /\ req.status = 400 /\ req.conn = "none"
            /\ ~req.hit /\ ~req.searched /\ ~req.genCalled /\ ~req.wrote
    /\ \A row \in cache : row.prompt # <<>>

\* C19 witness: an Ask with the empty string as prompt has been rejected.
C19_Witness ==
    \E req \in Finished :
        req.prompt.present /\ req.prompt.text = <<>> /\ req.status = 400
====
